---- MODULE Spec2Model ----
(***************************************************************************)
(* A model of the book shelf web API: the catalog of books, authors and    *)
(* book-author links kept in SQLite, the reviews kept in MongoDB, and the  *)
(* five JSON handlers of app.py.                                           *)
(*                                                                         *)
(* Strings are sequences of character codes, so that trimming, case        *)
(* folding, integer parsing and LIKE matching are computed as the code     *)
(* and the stores compute them.  A JSON value is a record [k, s, n]: its   *)
(* kind, its characters (kind "str") and its number (kinds "int", "bool";  *)
(* kind "float" holds the number in tenths).                               *)
(***************************************************************************)
EXTENDS Integers, Sequences, FiniteSets, TLC

VARIABLES
    titleIndex,   \* the unique index on books.title: "none", "binary" or "nocase"
    books,        \* table books: set of rows
    authors,      \* table authors: set of rows
    book_author,  \* table book_author: sequence of rows, in rowid (creation) order
    reviews,      \* the review collection: set of documents
    nextOid,      \* the number of ObjectIds generated so far, plus one
    clock,        \* wall clock, in microseconds
    writer,       \* the worker holding SQLite's write lock, 0 when it is free
    pc,           \* per worker: position in add_book ("idle", "ready", "tx")
    pending,      \* per worker: the add_book request in progress
    last,         \* the latest HTTP exchange: the request and its response
    app,          \* create_app: the config dict, the environment, the settings
    logging,      \* the audit channel (MySQL): "on", "down" or "disabled"
    logged        \* the audit row written for the latest exchange, if any

vars == <<titleIndex, books, authors, book_author, reviews, nextOid, clock,
          writer, pc, pending, last, app, logging, logged>>

catalogVars == <<titleIndex, books, authors, book_author>>
reviewVars == <<reviews, nextOid, clock>>
workerVars == <<writer, pc, pending>>
appVars == <<app, logging>>

----------------------------------------------------------------------------
(* Bounds of the model.                                                    *)

MaxBooks == 2
MaxReviews == 2
MaxClock == 1000
NumWorkers == 2

Workers == 1..NumWorkers

\* The clock advances in steps of half the time the model covers.
ClockStep == MaxClock \div 2

----------------------------------------------------------------------------
(* Characters and strings.                                                 *)

\* str.strip() removes leading and trailing whitespace.
IsSpace(c) == c \in {9, 10, 11, 12, 13, 32}

RECURSIVE LStrip(_)
LStrip(s) == IF s # <<>> /\ IsSpace(Head(s)) THEN LStrip(Tail(s)) ELSE s

RECURSIVE RStrip(_)
RStrip(s) ==
    IF s # <<>> /\ IsSpace(s[Len(s)]) THEN RStrip(SubSeq(s, 1, Len(s) - 1)) ELSE s

Strip(s) == RStrip(LStrip(s))

\* SQLite's NOCASE collation and LIKE fold the 26 ASCII upper case letters;
\* str.lower() agrees with it on ASCII.
FoldChar(c) == IF c \in 65..90 THEN c + 32 ELSE c

NoCase(s) == [i \in 1..Len(s) |-> FoldChar(s[i])]

Lower(s) == NoCase(s)

\* s < t in the lexicographic order of the codes.
RECURSIVE SeqLess(_, _)
SeqLess(s, t) ==
    IF t = <<>> THEN FALSE
    ELSE IF s = <<>> THEN TRUE
    ELSE IF Head(s) # Head(t) THEN Head(s) < Head(t)
    ELSE SeqLess(Tail(s), Tail(t))

\* SQLite's LIKE: % matches any run of characters, _ any one character,
\* letters match without regard to ASCII case.
RECURSIVE Like(_, _)
Like(p, s) ==
    IF p = <<>> THEN s = <<>>
    ELSE IF Head(p) = 37 THEN Like(Tail(p), s) \/ (s # <<>> /\ Like(p, Tail(s)))
    ELSE IF s = <<>> THEN FALSE
    ELSE /\ (Head(p) = 95 \/ FoldChar(Head(p)) = FoldChar(Head(s)))
         /\ Like(Tail(p), Tail(s))

RECURSIVE Join(_, _)
Join(strs, sep) ==
    IF strs = <<>> THEN <<>>
    ELSE IF Len(strs) = 1 THEN strs[1]
    ELSE strs[1] \o sep \o Join(Tail(strs), sep)

----------------------------------------------------------------------------
(* JSON values and Python's conversions.                                   *)

JMissing == [k |-> "missing", s |-> <<>>, n |-> 0]
JNull == [k |-> "null", s |-> <<>>, n |-> 0]
JStr(s) == [k |-> "str", s |-> s, n |-> 0]
JInt(n) == [k |-> "int", s |-> <<>>, n |-> n]
JFloat(tenths) == [k |-> "float", s |-> <<>>, n |-> tenths]

\* bool(v), as in `v or ""`: None, "", 0, 0.0 and False are falsy.
Truthy(v) ==
    CASE v.k \in {"missing", "null"} -> FALSE
      [] v.k = "str" -> v.s # <<>>
      [] OTHER -> v.n # 0

IsDigit(c) == c \in 48..57

RECURSIVE DigitsValue(_)
DigitsValue(d) ==
    IF d = <<>> THEN 0
    ELSE DigitsValue(SubSeq(d, 1, Len(d) - 1)) * 10 + (d[Len(d)] - 48)

\* The result of a conversion that may raise.
Ok(n) == [ok |-> TRUE, n |-> n]
Raise == [ok |-> FALSE, n |-> 0]

\* A parser that takes no sign.
ParseIntUnsigned(s) ==
    LET t == Strip(s)
    IN  IF t # <<>> /\ \A i \in 1..Len(t) : IsDigit(t[i])
        THEN Ok(DigitsValue(t))
        ELSE Raise

\* int(str): surrounding whitespace, one optional sign, decimal digits with
\* single underscores between them.
ParseInt(s) ==
    LET t == Strip(s)
        signed == t # <<>> /\ Head(t) \in {43, 45}
        body == IF signed THEN Tail(t) ELSE t
        wellFormed ==
            /\ body # <<>>
            /\ \A i \in 1..Len(body) :
                  \/ IsDigit(body[i])
                  \/ /\ body[i] = 95
                     /\ 1 < i /\ i < Len(body)
                     /\ IsDigit(body[i - 1]) /\ IsDigit(body[i + 1])
        value == DigitsValue(SelectSeq(body, IsDigit))
    IN  IF ~wellFormed THEN Raise
        ELSE IF signed /\ Head(t) = 45 THEN Ok(0 - value)
        ELSE Ok(value)

\* int(v): an int or bool is itself, a float is truncated toward zero, a string
\* is parsed, None raises TypeError.
PyInt(v) ==
    CASE v.k \in {"int", "bool"} -> Ok(v.n)
      [] v.k = "float" -> Ok(IF v.n >= 0 THEN v.n \div 10 ELSE 0 - ((0 - v.n) \div 10))
      [] v.k = "str" -> ParseInt(v.s)
      [] OTHER -> Raise

----------------------------------------------------------------------------
(* SQL values.                                                             *)

Null == [isnull |-> TRUE, v |-> <<>>]
Some(s) == [isnull |-> FALSE, v |-> s]

\* The first argument, NULL or not.
CoalesceFirst(a, b) == a

\* COALESCE(a, b)
Coalesce(a, b) == IF a.isnull THEN b ELSE a

DEFAULT_COVER == <<104, 116, 116, 112>>

SetMax(S) == CHOOSE x \in S : \A y \in S : y <= x
SetMin(S) == CHOOSE x \in S : \A y \in S : x <= y

\* A rowid that is taken again.
NextRowIdReused(ids) == IF ids = {} THEN 1 ELSE SetMax(ids)

\* The rowid SQLite gives a row inserted into a table whose rowids are `ids`.
NextRowId(ids) == IF ids = {} THEN 1 ELSE SetMax(ids) + 1

----------------------------------------------------------------------------
(* The catalog: books, authors, book_author.                               *)

BookRow(id, title, year, image) ==
    [book_id |-> id, title |-> title, publication_year |-> year, image_url |-> image]

AuthorRow(id, name) == [author_id |-> id, name |-> name]

LinkRow(bid, aid) == [book_id |-> bid, author_id |-> aid]

BookIds(bs) == {b.book_id : b \in bs}

RECURSIVE Ascending(_)
Ascending(S) ==
    IF S = {} THEN <<>> ELSE <<SetMin(S)>> \o Ascending(S \ {SetMin(S)})

\* The authors linked to a book, as the join reads them: book_author is searched
\* through the index of its primary key (book_id, author_id), so the rows of one
\* book come in ascending author_id.
LinkedAuthorIds(ba, bid) ==
    Ascending({ba[i].author_id : i \in {j \in 1..Len(ba) : ba[j].book_id = bid}})

AuthorName(as, aid) == (CHOOSE a \in as : a.author_id = aid).name

LinkedNames(as, ba, bid) ==
    LET ids == LinkedAuthorIds(ba, bid)
    IN  [i \in 1..Len(ids) |-> AuthorName(as, ids[i])]

Separator == <<44, 32>>

\* GROUP_CONCAT(a.name, ', ') over the joined rows `names` of one book: NULL when
\* the group has no name.
GroupConcat(names) == IF names = <<>> THEN Null ELSE Some(Join(names, Separator))

\* One row of the SELECT of list_books and add_book.
Item(b, names) ==
    [book_id |-> b.book_id,
     title |-> b.title,
     publication_year |-> b.publication_year,
     image_url |-> Coalesce(b.image_url, Some(DEFAULT_COVER)).v,
     authors |-> GroupConcat(names)]

NoItem ==
    [book_id |-> 0, title |-> <<>>, publication_year |-> 0, image_url |-> <<>>,
     authors |-> Null]

\* The SELECT ... WHERE b.book_id = ? of add_book.
BookRecord(bs, as, ba, bid) ==
    LET b == CHOOSE r \in bs : r.book_id = bid
    IN  Item(b, LinkedNames(as, ba, bid))

\* ORDER BY b.title COLLATE NOCASE ASC over the groups, which come out of the
\* GROUP BY in ascending book_id.
ItemBefore(x, y) ==
    \/ SeqLess(NoCase(x.title), NoCase(y.title))
    \/ NoCase(x.title) = NoCase(y.title) /\ x.book_id < y.book_id

RECURSIVE OrderByTitle(_)
OrderByTitle(S) ==
    IF S = {} THEN <<>>
    ELSE LET first == CHOOSE x \in S : \A y \in S \ {x} : ItemBefore(x, y)
         IN  <<first>> \o OrderByTitle(S \ {first})

\* The limit of list_books: "all" is no LIMIT clause, an integer is that LIMIT,
\* anything int() rejects is 100.
NoLimit == [unbounded |-> TRUE, n |-> 0]
LimitOf(n) == [unbounded |-> FALSE, n |-> n]

ParseLimit(arg) ==
    LET limit_raw == Lower(Strip(IF Truthy(arg) THEN arg.s ELSE <<49, 48, 48>>))
        parsed == ParseInt(limit_raw)
    IN  IF limit_raw = <<97, 108, 108>> THEN NoLimit
        ELSE IF parsed.ok THEN LimitOf(parsed.n)
        ELSE LimitOf(100)

\* SQLite's LIMIT n: the first n rows, and every row when n is negative.
ApplyLimit(rows, limit) ==
    IF limit.unbounded \/ limit.n < 0 \/ limit.n >= Len(rows) THEN rows
    ELSE SubSeq(rows, 1, limit.n)

\* The query of list_books.  The WHERE clause filters the joined rows before they
\* are grouped: a book with no link has one joined row whose author name is NULL.
SelectBooks(bs, as, ba, q, limit) ==
    LET pattern == <<37>> \o q \o <<37>>
        TitleMatches(b) == q = <<>> \/ Like(pattern, b.title)
        NameMatches(name) == Like(pattern, name)
        Kept(b) ==
            IF TitleMatches(b) THEN LinkedNames(as, ba, b.book_id)
            ELSE SelectSeq(LinkedNames(as, ba, b.book_id), NameMatches)
        InResult(b) == TitleMatches(b) \/ Kept(b) # <<>>
        groups == {Item(b, Kept(b)) : b \in {r \in bs : InResult(r)}}
    IN  ApplyLimit(OrderByTitle(groups), limit)

----------------------------------------------------------------------------
(* add_book: the request, and what the handler does to the catalog.        *)

\* Lines 195-206: the fields of the JSON body, trimmed and validated.  A truthy
\* value that is no string has no strip(): the handler raises (500).
ParseAddBook(data) ==
    LET Text(v) == IF Truthy(v) THEN Strip(v.s) ELSE <<>>
        raises == \E v \in {data.title, data.author, data.image_url} :
                      Truthy(v) /\ v.k # "str"
        title == Text(data.title)
        author == Text(data.author)
        year == PyInt(data.publication_year)
        image == Text(data.image_url)
    IN  [status |-> IF raises THEN 500
                    ELSE IF title = <<>> \/ author = <<>> THEN 400
                    ELSE IF ~year.ok THEN 400
                    ELSE 0,
         title |-> title,
         author |-> author,
         year |-> year.n,
         image_url |-> IF image = <<>> THEN Null ELSE Some(image)]

\* INSERT OR IGNORE INTO authors(name): name is UNIQUE, compared exactly.
EnsureAuthor(as, name) ==
    IF \E a \in as : a.name = name THEN as
    ELSE as \cup {AuthorRow(NextRowId({a.author_id : a \in as}), name)}

AuthorId(as, name) == (CHOOSE a \in as : a.name = name).author_id

\* The lookup without COLLATE NOCASE.
FindBookBinary(bs, title) ==
    LET found == {b.book_id : b \in {r \in bs : r.title = title}}
    IN  IF found = {} THEN 0 ELSE SetMin(found)

\* SELECT book_id FROM books WHERE title = ? COLLATE NOCASE, fetchone(): the
\* matching row, 0 when there is none.
FindBook(bs, title) ==
    LET found == {b.book_id : b \in {r \in bs : NoCase(r.title) = NoCase(title)}}
    IN  IF found = {} THEN 0 ELSE SetMin(found)

\* A link that replaces the links the book had.
EnsureLinkReplacing(ba, bid, aid) ==
    Append(SelectSeq(ba, LAMBDA l : l.book_id # bid), LinkRow(bid, aid))

\* INSERT OR IGNORE INTO book_author: (book_id, author_id) is the primary key.
EnsureLink(ba, bid, aid) ==
    IF \E i \in 1..Len(ba) : ba[i] = LinkRow(bid, aid) THEN ba
    ELSE Append(ba, LinkRow(bid, aid))

\* Whether the unique index on books.title rejects a new row with this title.
IndexRejects(idx, bs, title) ==
    CASE idx = "nocase" -> \E b \in bs : NoCase(b.title) = NoCase(title)
      [] idx = "binary" -> \E b \in bs : b.title = title
      [] OTHER -> FALSE

\* Lines 223-276, after the lookup returned `row`: the update of the book found,
\* or the insert of a new one, the link, the commit and the response.  An insert
\* the unique index rejects raises IntegrityError: nothing is committed (500).
Upsert(idx, bs, as, ba, req, row) ==
    LET as1 == EnsureAuthor(as, req.author)
        author_id == AuthorId(as1, req.author)
        old == CHOOSE b \in bs : b.book_id = row
        updated == BookRow(row, old.title, req.year,
                           Coalesce(req.image_url, old.image_url))
        bsU == (bs \ {old}) \cup {updated}
        baU == EnsureLink(ba, row, author_id)
        book_id == NextRowId(BookIds(bs))
        bsI == bs \cup {BookRow(book_id, req.title, req.year, req.image_url)}
        baI == EnsureLink(ba, book_id, author_id)
    IN  IF row # 0
        THEN [status |-> 200, books |-> bsU, authors |-> as1, book_author |-> baU,
              book |-> BookRecord(bsU, as1, baU, row)]
        ELSE IF IndexRejects(idx, bs, req.title)
        THEN [status |-> 500, books |-> bs, authors |-> as, book_author |-> ba,
              book |-> NoItem]
        ELSE [status |-> 201, books |-> bsI, authors |-> as1, book_author |-> baI,
              book |-> BookRecord(bsI, as1, baI, book_id)]

AddBookExchange(data, status, book) ==
    [op |-> "add_book", data |-> data, status |-> status, book |-> book]

NoPending ==
    [data |-> [title |-> JMissing, author |-> JMissing,
               publication_year |-> JMissing, image_url |-> JMissing],
     title |-> <<>>, author |-> <<>>, year |-> 0, image_url |-> Null, row |-> 0]

----------------------------------------------------------------------------
(* The requests the model sends.                                           *)

TitleInputs ==
    {JStr(<<32>>), JStr(<<67, 108>>), JStr(<<99, 108, 32>>), JStr(<<84, 104>>)}

AuthorInputs == {JStr(<<>>), JStr(<<82, 111>>), JStr(<<32, 65, 110>>)}

YearInputs == {JNull, JStr(<<49, 57, 57, 57>>)}

ImageInputs == {JMissing}

BookRequests ==
    [title : TitleInputs, author : AuthorInputs, publication_year : YearInputs,
     image_url : ImageInputs]

----------------------------------------------------------------------------
(* create_app: the settings of the application.  A key of the config dict  *)
(* or a variable of the environment is absent or has a value.              *)

\* dict.get(key, default) and os.environ.get(key, default).
Get(d, key, default) == IF d[key].isnull THEN default ELSE d[key].v

\* a or b on strings: the empty string is falsy.
OrElse(a, b) == IF a.isnull \/ a.v = "" THEN b ELSE a

\* A path of the file system: absolute, or relative to the working directory.
Path(isabs, name) == [isabs |-> isabs, root |-> "", name |-> name]

\* os.path.join(app.root_path, path).
JoinRoot(path) == [isabs |-> TRUE, root |-> "app.root_path", name |-> path.name]

\* A key that is absent, and a key with a value.
Unset == [isnull |-> TRUE, v |-> ""]
UnsetPath == [isnull |-> TRUE, v |-> Path(FALSE, "")]
Given(v) == [isnull |-> FALSE, v |-> v]

NoConfig ==
    [DATABASE |-> UnsetPath, MONGODB_URI |-> Unset, MONGO_DB_NAME |-> Unset,
     REVIEWS_COLL |-> Unset]

NoEnviron ==
    [BOOKS_DB_PATH |-> UnsetPath, MONGO_URL |-> Unset, MONGODB_URI |-> Unset,
     MONGO_DB_NAME |-> Unset, REVIEWS_COLL |-> Unset]

\* Lines 108-121.  Only DATABASE is read from the config dict.
CreateApp(config, environ) ==
    LET path == Get(config, "DATABASE",
                    Get(environ, "BOOKS_DB_PATH", Path(FALSE, "db/books.db")))
    IN  [config |-> config,
         environ |-> environ,
         DB_PATH |-> IF path.isabs THEN path ELSE JoinRoot(path),
         MONGODB_URI |-> OrElse(environ.MONGO_URL,
                                OrElse(environ.MONGODB_URI,
                                       Given("mongodb://127.0.0.1:27017/"))).v,
         MONGO_DB_NAME |-> Get(environ, "MONGO_DB_NAME", "books_app"),
         REVIEWS_COLL |-> Get(environ, "REVIEWS_COLL", "reviews")]

----------------------------------------------------------------------------
(* The audit log: one row of the MySQL table logs per call of a handler    *)
(* that log_call wraps.                                                    *)

NoRow == [function_name |-> "", status |-> ""]

\* _write_log_row: nothing is written when DISABLE_DB_LOGGING is 1, and an
\* error of the connection or of the INSERT is caught and printed.
WriteLogRow(function_name, status) ==
    IF logging = "on"
    THEN [function_name |-> function_name, status |-> status]
    ELSE NoRow

\* log_call: the label of the response's status code; an exception of the
\* handler (a response 500) is logged as an error and raised again.
StatusLabel(status_code) ==
    IF 200 <= status_code /\ status_code < 400 THEN "success" ELSE "error"

LogCall(function_name, status_code) ==
    logged' = WriteLogRow(function_name, StatusLabel(status_code))

----------------------------------------------------------------------------
(* The state the service starts in.                                        *)

\* manage.py --reset: the schema with the NOCASE unique index, no rows.
InitReset ==
    /\ titleIndex = "nocase"
    /\ books = {}
    /\ authors = {}
    /\ book_author = <<>>

\* seed.py: the case-sensitive unique index and the seeded books (one stands for
\* the ten).
InitSeeded ==
    /\ titleIndex = "binary"
    /\ books = {BookRow(1, <<67, 108>>, 2008, Some(<<99>>))}
    /\ authors = {AuthorRow(1, <<82, 111>>)}
    /\ book_author = <<LinkRow(1, 1)>>

\* The test fixture: the schema with no index on the title, the sample book.
InitFixture ==
    /\ titleIndex = "none"
    /\ books = {BookRow(1, <<80, 121>>, 2024, Some(<<99>>))}
    /\ authors = {AuthorRow(1, <<85, 110>>)}
    /\ book_author = <<LinkRow(1, 1)>>

NoExchange == [op |-> "none", status |-> 0]

InitStores ==
    /\ InitReset \/ InitSeeded \/ InitFixture
    /\ reviews = {}
    /\ nextOid = 1
    /\ clock = 0
    /\ writer = 0
    /\ pc = [w \in Workers |-> "idle"]
    /\ pending = [w \in Workers |-> NoPending]
    /\ last = NoExchange
    /\ logged = NoRow

\* The application as app.py builds it (create_app()), its audit channel up.
Init ==
    /\ InitStores
    /\ app = CreateApp(NoConfig, NoEnviron)
    /\ logging = "on"

----------------------------------------------------------------------------
(* POST /api/books served alone: the whole handler, from the request to    *)
(* the commit, with no other writer.                                       *)

AddBook(data) ==
    \E req \in {ParseAddBook(data)} :
        /\ writer = 0
        /\ IF req.status # 0
           THEN /\ last' = AddBookExchange(data, req.status, NoItem)
                /\ UNCHANGED <<books, authors, book_author>>
           ELSE \E done \in {Upsert(titleIndex, books, authors, book_author, req,
                                    FindBook(books, req.title))} :
                    /\ Cardinality(done.books) <= MaxBooks
                    /\ books' = done.books
                    /\ authors' = done.authors
                    /\ book_author' = done.book_author
                    /\ last' = AddBookExchange(data, done.status, done.book)
        /\ LogCall("add_book", last'.status)
        /\ UNCHANGED <<titleIndex, reviewVars, workerVars, appVars>>

----------------------------------------------------------------------------
(* GET /api/books                                                          *)

QueryInputs == {JMissing, JStr(<<32, 65, 78>>)}

LimitInputs ==
    {JMissing, JStr(<<>>), JStr(<<65, 108, 108>>), JStr(<<49>>), JStr(<<48>>),
     JStr(<<45, 49>>), JStr(<<120>>)}

\* Lines 159-190.
ListBooks(qArg, limitArg) ==
    \E rows \in {SelectBooks(books, authors, book_author,
                             Strip(IF Truthy(qArg) THEN qArg.s ELSE <<>>),
                             ParseLimit(limitArg))} :
        /\ last' = [op |-> "list_books", q |-> qArg, limit |-> limitArg,
                    status |-> 200, items |-> rows, count |-> Len(rows)]
        /\ LogCall("list_books", 200)
        /\ UNCHANGED <<catalogVars, reviewVars, workerVars, appVars>>

NextBooks ==
    \/ \E data \in BookRequests : AddBook(data)
    \/ \E qArg \in QueryInputs, limitArg \in LimitInputs : ListBooks(qArg, limitArg)

SpecBooks == Init /\ [][NextBooks]_vars

----------------------------------------------------------------------------
(* POST /api/books served concurrently.  Each request has its own SQLite   *)
(* connection.  The first statement of the handler is an INSERT, before    *)
(* which sqlite3 opens a transaction: it takes the write lock of the       *)
(* database, kept until the commit (or until the connection is closed      *)
(* after an exception).  A connection that finds the lock taken waits for  *)
(* it; when the wait outlasts the connection's timeout the statement       *)
(* raises OperationalError, which nothing catches.                         *)

RaceRequests ==
    [title : {JStr(<<67, 108>>), JStr(<<99, 108, 32>>)},
     author : {JStr(<<82, 111>>), JStr(<<32, 65, 110>>)},
     publication_year : {JNull, JStr(<<49, 57, 57, 57>>)},
     image_url : {JMissing}]

InFlight == {w \in Workers : pc[w] # "idle"}

\* Lines 195-209: the request is read and validated; a valid one goes on to the
\* database.
AddBookStart(w, data) ==
    \E req \in {ParseAddBook(data)} :
        /\ pc[w] = "idle"
        /\ IF req.status # 0
           THEN /\ last' = AddBookExchange(data, req.status, NoItem)
                /\ LogCall("add_book", req.status)
                /\ UNCHANGED <<pc, pending>>
           ELSE /\ Cardinality(books) + Cardinality(InFlight) < MaxBooks
                /\ pc' = [pc EXCEPT ![w] = "ready"]
                /\ pending' = [pending EXCEPT ![w] =
                       [data |-> data, title |-> req.title, author |-> req.author,
                        year |-> req.year, image_url |-> req.image_url, row |-> 0]]
                /\ UNCHANGED <<last, logged>>
        /\ UNCHANGED <<catalogVars, reviewVars, writer, appVars>>

\* Lines 212-221: the write lock is free; the transaction begins, the author is
\* ensured and the book is looked up by title.
AddBookLock(w) ==
    /\ pc[w] = "ready"
    /\ writer = 0
    /\ writer' = w
    /\ pc' = [pc EXCEPT ![w] = "tx"]
    /\ pending' = [pending EXCEPT ![w].row = FindBook(books, pending[w].title)]
    /\ UNCHANGED <<catalogVars, reviewVars, last, appVars, logged>>

\* Line 212, the write lock held by another request for longer than the timeout:
\* OperationalError (database is locked), the request ends with 500.
AddBookBusy(w) ==
    /\ pc[w] = "ready"
    /\ writer \notin {0, w}
    /\ pc' = [pc EXCEPT ![w] = "idle"]
    /\ pending' = [pending EXCEPT ![w] = NoPending]
    /\ last' = AddBookExchange(pending[w].data, 500, NoItem)
    /\ LogCall("add_book", 500)
    /\ UNCHANGED <<catalogVars, reviewVars, writer, appVars>>

\* Lines 223-276: update or insert, link, commit; the lock is released.
AddBookCommit(w) ==
    \E done \in {Upsert(titleIndex, books, authors, book_author, pending[w],
                        pending[w].row)} :
        /\ pc[w] = "tx"
        /\ writer = w
        /\ books' = done.books
        /\ authors' = done.authors
        /\ book_author' = done.book_author
        /\ writer' = 0
        /\ pc' = [pc EXCEPT ![w] = "idle"]
        /\ pending' = [pending EXCEPT ![w] = NoPending]
        /\ last' = AddBookExchange(pending[w].data, done.status, done.book)
        /\ LogCall("add_book", done.status)
        /\ UNCHANGED <<titleIndex, reviewVars, appVars>>

NextRace ==
    \/ \E w \in Workers, data \in RaceRequests : AddBookStart(w, data)
    \/ \E w \in Workers : AddBookLock(w)
    \/ \E w \in Workers : AddBookBusy(w)
    \/ \E w \in Workers : AddBookCommit(w)

SpecRace == Init /\ [][NextRace]_vars

----------------------------------------------------------------------------
(* Properties of POST /api/books.                                          *)

\* The names of the authors linked to a book.
NamesOf(as, ba, bid) ==
    {AuthorName(as, ba[i].author_id) : i \in {j \in 1..Len(ba) : ba[j].book_id = bid}}

LinksOf(ba, bid) == {i \in 1..Len(ba) : ba[i].book_id = bid}

SameTitle(t, u) == NoCase(t) = NoCase(u)

\* A step that answers a valid POST /api/books.
ValidAddBookStep == last'.op = "add_book" /\ ParseAddBook(last'.data).status = 0

\* C1: a valid upsert whose title equals, in any casing, the title of a book of
\* the catalog and whose author is not linked to that book answers 200, creates
\* no book row, returns that book's book_id, and leaves the book with the authors
\* it had plus the new one.
C1_UpsertExistingTitle ==
    [][ValidAddBookStep => \A b \in books :
          LET req == ParseAddBook(last'.data)
          IN  (/\ SameTitle(b.title, req.title)
               /\ req.author \notin NamesOf(authors, book_author, b.book_id))
              => /\ last'.status = 200
                 /\ BookIds(books') = BookIds(books)
                 /\ last'.book.book_id = b.book_id
                 /\ NamesOf(authors', book_author', b.book_id)
                        = NamesOf(authors, book_author, b.book_id) \cup {req.author}
                 /\ Cardinality(LinksOf(book_author', b.book_id))
                        = Cardinality(LinksOf(book_author, b.book_id)) + 1
                 /\ SubSeq(book_author', 1, Len(book_author)) = book_author
      ]_vars

\* An upsert answered 200 whose title is cased unlike the stored one, and whose
\* author is the latest of several linked to the book.
C1_Witness ==
    /\ last.op = "add_book"
    /\ last.status = 200
    /\ last.book.title # ParseAddBook(last.data).title
    /\ Cardinality(LinksOf(book_author, last.book.book_id)) >= 2
    /\ book_author[Len(book_author)].book_id = last.book.book_id
    /\ AuthorName(authors, book_author[Len(book_author)].author_id)
           = ParseAddBook(last.data).author

\* C2: a valid POST /api/books whose title matches no book of the catalog in any
\* casing answers 201 with a book_id no book had, the new row carries the title
\* and is linked to the author; and a list of the books that follows, with a
\* limit that does not cut it short, includes the book.
C2_UpsertNewTitle ==
    [][/\ LET req == ParseAddBook(last'.data)
              id == last'.book.book_id
          IN  (/\ ValidAddBookStep
               /\ \A b \in books : ~SameTitle(b.title, req.title))
              => /\ last'.status = 201
                 /\ id \notin BookIds(books)
                 /\ BookIds(books') = BookIds(books) \cup {id}
                 /\ \E b \in books' : b.book_id = id /\ b.title = req.title
                 /\ req.author \in NamesOf(authors', book_author', id)
       /\ (/\ last.op = "add_book" /\ last.status = 201
           /\ last'.op = "list_books"
           /\ ~Truthy(last'.q)
           /\ \/ ParseLimit(last'.limit).unbounded
              \/ ParseLimit(last'.limit).n >= Cardinality(books'))
          => \E i \in 1..Len(last'.items) : last'.items[i] = last.book
      ]_vars

\* A book was created beside another one.
C2_Witness ==
    /\ last.op = "add_book"
    /\ last.status = 201
    /\ Cardinality(books) >= 2
    /\ last.book.book_id = SetMax(BookIds(books))

\* C3: no two book rows have titles that are equal without regard to case.
C3_TitlesUniqueNoCase ==
    \A b1, b2 \in books : SameTitle(b1.title, b2.title) => b1 = b2

\* Two requests for the same unseen title are in progress together: one has
\* created the book, the other has not yet looked it up.
C3_Witness ==
    /\ last.op = "add_book"
    /\ last.status = 201
    /\ \E w \in Workers :
          /\ pc[w] = "ready"
          /\ SameTitle(pending[w].title, last.book.title)
          /\ pending[w].title # last.book.title

\* C9: a request that raced with another one for the same title does not crash:
\* it ends as an update (or as the creation) of the book, or at worst with a
\* conflict (409), never with an unhandled error.
C9_LoserDoesNotCrash ==
    [][\A w \in Workers :
          (/\ pc[w] # "idle"
           /\ pc'[w] = "idle"
           /\ \E v \in Workers \ {w} :
                 pc[v] # "idle" /\ SameTitle(pending[v].title, pending[w].title))
          => last'.status \in {200, 201, 409}
      ]_vars

----------------------------------------------------------------------------
(* The reviews: documents of one MongoDB collection.                       *)

\* str(n) for n >= 0.
RECURSIVE NatStr(_)
NatStr(n) == IF n < 10 THEN <<48 + n>> ELSE NatStr(n \div 10) \o <<48 + (n % 10)>>

IntStr(n) == IF n < 0 THEN <<45>> \o NatStr(0 - n) ELSE NatStr(n)

\* str(v) of a JSON value: None is "None", a float is its shortest decimal.
PyStr(v) ==
    CASE v.k = "str" -> v.s
      [] v.k = "int" -> IntStr(v.n)
      [] v.k = "bool" -> IF v.n = 1 THEN <<84, 114, 117, 101>>
                         ELSE <<70, 97, 108, 115, 101>>
      [] v.k = "float" -> (IF v.n < 0 THEN <<45>> ELSE <<>>)
                          \o NatStr((IF v.n < 0 THEN 0 - v.n ELSE v.n) \div 10)
                          \o <<46>>
                          \o NatStr((IF v.n < 0 THEN 0 - v.n ELSE v.n) % 10)
      [] OTHER -> <<78, 111, 110, 101>>

\* An ObjectId is 12 bytes; str() writes it as 24 lower case hexadecimal digits.
OidHexLen == 24

HexDigit(d) == IF d < 10 THEN 48 + d ELSE 87 + d

RECURSIVE ToHex(_, _)
ToHex(n, width) ==
    IF width = 0 THEN <<>> ELSE ToHex(n \div 16, width - 1) \o <<HexDigit(n % 16)>>

OidStr(oid) == ToHex(oid, OidHexLen)

IsHex(c) == c \in (48..57) \cup (97..102) \cup (65..70)

HexValue(c) == IF c \in 48..57 THEN c - 48 ELSE IF c \in 97..102 THEN c - 87 ELSE c - 55

RECURSIVE FromHex(_)
FromHex(s) ==
    IF s = <<>> THEN 0 ELSE FromHex(SubSeq(s, 1, Len(s) - 1)) * 16 + HexValue(s[Len(s)])

\* ObjectId(rid): 24 hexadecimal digits of either case, InvalidId otherwise.
ParseOid(rid) ==
    IF Len(rid) = OidHexLen /\ \A i \in 1..Len(rid) : IsHex(rid[i])
    THEN Ok(FromHex(rid))
    ELSE Raise

\* BSON keeps a datetime in whole milliseconds: the microseconds are dropped.
Millis(t) == (t \div 1000) * 1000

\* Lines 279-290.
SerializeReview(doc) ==
    [id |-> OidStr(doc.id),
     book_id |-> doc.book_id,
     reviewer |-> doc.reviewer,
     rating |-> doc.rating,
     text |-> doc.text,
     created_at |-> doc.created_at]

NoReview ==
    [id |-> <<>>, book_id |-> 0, reviewer |-> <<>>, rating |-> 0, text |-> <<>>,
     created_at |-> 0]

\* The validation without the test of the rating's range.
ValidateReviewAnyRating(data) ==
    LET book_id == PyInt(data.book_id)
        rating == PyInt(data.rating)
        rejected == ~book_id.ok \/ ~rating.ok
    IN  [status |-> IF rejected THEN 400 ELSE 0,
         error |-> IF rejected
                   THEN "rating must be integer 1-5 and book_id integer"
                   ELSE "",
         book_id |-> book_id.n,
         rating |-> rating.n]

\* Lines 313-322: each field present and, if a string, not blank; book_id and
\* rating accepted by int(); the rating from 1 to 5.
ValidateReview(data) ==
    LET Absent(v) == v.k = "missing" \/ (v.k = "str" /\ Strip(v.s) = <<>>)
        book_id == PyInt(data.book_id)
        rating == PyInt(data.rating)
        required ==
            CASE Absent(data.book_id) -> "book_id is required"
              [] Absent(data.reviewer) -> "reviewer is required"
              [] Absent(data.rating) -> "rating is required"
              [] Absent(data.text) -> "text is required"
              [] OTHER -> ""
        rejected == ~book_id.ok \/ ~rating.ok \/ rating.n < 1 \/ rating.n > 5
    IN  [status |-> IF required # "" \/ rejected THEN 400 ELSE 0,
         error |-> IF required # "" THEN required
                   ELSE IF rejected
                   THEN "rating must be integer 1-5 and book_id integer"
                   ELSE "",
         book_id |-> book_id.n,
         rating |-> rating.n]

\* The document with the reviewer and the text as they were sent.
ReviewDocRaw(oid, data, checked, now) ==
    [id |-> oid,
     book_id |-> checked.book_id,
     reviewer |-> PyStr(data.reviewer),
     rating |-> checked.rating,
     text |-> PyStr(data.text),
     created_at |-> Millis(now)]

\* Lines 330-336.
ReviewDoc(oid, data, checked, now) ==
    [id |-> oid,
     book_id |-> checked.book_id,
     reviewer |-> Strip(PyStr(data.reviewer)),
     rating |-> checked.rating,
     text |-> Strip(PyStr(data.text)),
     created_at |-> Millis(now)]

\* A catalog in which every book_id is found.
BookExistsAlways(bs, book_id) == TRUE

\* Line 325: SELECT 1 FROM books WHERE book_id = ?
BookExists(bs, book_id) == book_id \in BookIds(bs)

AddReviewExchange(data, at, status, error, review) ==
    [op |-> "add_review", data |-> data, at |-> at, status |-> status,
     error |-> error, review |-> review]

\* POST /api/reviews, lines 310-339.  The request arrives at `clock`; the
\* handler reads the time after `elapsed`.
AddReview(data) ==
    \E checked \in {ValidateReview(data)} :
        /\ IF checked.status # 0
           THEN /\ last' = AddReviewExchange(data, clock, 400, checked.error, NoReview)
                /\ UNCHANGED reviewVars
           ELSE IF ~BookExists(books, checked.book_id)
           THEN /\ last' = AddReviewExchange(data, clock, 404,
                                             "book_id does not exist", NoReview)
                /\ UNCHANGED reviewVars
           ELSE \E elapsed \in {0, ClockStep} :
                  \E doc \in {ReviewDoc(nextOid, data, checked, clock + elapsed)} :
                    /\ nextOid <= MaxReviews
                    /\ clock + elapsed <= MaxClock
                    /\ reviews' = reviews \cup {doc}
                    /\ nextOid' = nextOid + 1
                    /\ clock' = clock + elapsed
                    /\ last' = AddReviewExchange(data, clock, 201, "",
                                                 SerializeReview(doc))
        /\ LogCall("add_review", last'.status)
        /\ UNCHANGED <<catalogVars, workerVars, appVars>>

\* find({"book_id": book_id}).sort("created_at", -1): the documents of the book,
\* newest first, documents of one time in any order.
FindSorted(docs, book_id) ==
    LET found == {d \in docs : d.book_id = book_id}
        n == Cardinality(found)
    IN  {f \in [1..n -> found] :
            /\ \A i, j \in 1..n : i # j => f[i] # f[j]
            /\ \A i, j \in 1..n : i < j => f[i].created_at >= f[j].created_at}

\* Line 306: [_serialize_review(d) for d in items].
RECURSIVE SerializeAll(_)
SerializeAll(items) ==
    IF Len(items) = 0 THEN <<>>
    ELSE <<SerializeReview(items[1])>> \o SerializeAll(SubSeq(items, 2, Len(items)))

\* GET /api/reviews, lines 294-306.
GetReviews(arg) ==
    \E book_id \in {IF arg.k = "str" THEN ParseInt(arg.s) ELSE Raise} :
        /\ IF ~Truthy(arg) \/ ~book_id.ok
           THEN last' = [op |-> "get_reviews", book_id |-> arg, status |-> 400,
                         items |-> <<>>, count |-> 0]
           ELSE \E found \in FindSorted(reviews, book_id.n) :
                  last' = [op |-> "get_reviews", book_id |-> arg, status |-> 200,
                           items |-> SerializeAll(found),
                           count |-> Len(found)]
        /\ LogCall("get_reviews", last'.status)
        /\ UNCHANGED <<catalogVars, reviewVars, workerVars, appVars>>

\* Every document of the collection.
DeleteAll(docs, oid) == docs

\* Line 348: the documents delete_one({"_id": oid}) removes.
DeleteOne(docs, oid) == {d \in docs : d.id = oid}

\* DELETE /api/reviews/<rid>, lines 341-349.  The handler is not wrapped by
\* log_call: no audit row is written.
DeleteReview(rid) ==
    \E oid \in {ParseOid(rid)} :
        /\ IF ~oid.ok
           THEN /\ last' = [op |-> "delete_review", rid |-> rid, status |-> 400,
                            deleted |-> 0]
                /\ UNCHANGED reviews
           ELSE \E hit \in {DeleteOne(reviews, oid.n)} :
                  /\ reviews' = reviews \ hit
                  /\ last' = [op |-> "delete_review", rid |-> rid, status |-> 200,
                              deleted |-> Cardinality(hit)]
        /\ logged' = NoRow
        /\ UNCHANGED <<catalogVars, nextOid, clock, workerVars, appVars>>

\* Time passes.
Tick ==
    /\ clock + ClockStep <= MaxClock
    /\ clock' = clock + ClockStep
    /\ UNCHANGED <<catalogVars, reviews, nextOid, workerVars, last, appVars, logged>>

----------------------------------------------------------------------------
(* The review requests the model sends.                                    *)

ReviewRequests ==
    [book_id : {JMissing, JInt(1), JStr(<<120>>), JInt(2)},
     reviewer : {JStr(<<32>>), JStr(<<32, 65, 108, 32>>)},
     rating : {JMissing, JInt(0), JInt(5), JInt(6), JFloat(45), JStr(<<53>>)},
     text : {JStr(<<>>), JStr(<<111, 107>>)}]

NextReviewAdd ==
    \/ \E data \in ReviewRequests : AddReview(data)
    \/ \E arg \in {JStr(<<49>>)} : GetReviews(arg)
    \/ Tick

SpecReviewAdd == Init /\ [][NextReviewAdd]_vars

StoredReviewRequests ==
    [book_id : {JInt(1)},
     reviewer : {JStr(<<65, 108>>)},
     rating : {JInt(1), JInt(5)},
     text : {JStr(<<111, 107>>)}]

BookIdArgs ==
    {JMissing, JStr(<<>>), JStr(<<49>>), JStr(<<32, 49>>), JStr(<<48>>),
     JStr(<<45, 49>>), JStr(<<50>>), JStr(<<120>>), JStr(<<49, 46, 53>>)}

ReviewIds ==
    {OidStr(n) : n \in 1..(MaxReviews + 1)}
        \cup {<<49>>, <<122>> \o SubSeq(OidStr(0), 2, OidHexLen)}

NextReviewOps ==
    \/ \E data \in StoredReviewRequests : AddReview(data)
    \/ \E arg \in BookIdArgs : GetReviews(arg)
    \/ \E rid \in ReviewIds : DeleteReview(rid)

SpecReviewOps == Init /\ [][NextReviewOps]_vars

----------------------------------------------------------------------------
(* Properties of the review handlers.                                      *)

\* The text is the decimal writing of the integer n, with an optional sign and
\* surrounding whitespace.
Writes(text, n) ==
    Strip(text) \in {IntStr(n)} \cup (IF n >= 0 THEN {<<43>> \o NatStr(n)} ELSE {<<45, 48>>})

IntegerRange == (0 - 9)..9

IsIntegerText(text) == \E n \in IntegerRange : Writes(text, n)

\* A JSON value that is an integer: an integer number, or a string that writes
\* one.
IsInteger(v) == v.k = "int" \/ (v.k = "str" /\ IsIntegerText(v.s))

IntegerOf(v) ==
    IF v.k = "int" THEN v.n ELSE CHOOSE n \in IntegerRange : Writes(v.s, n)

IsEmpty(v) == v.k = "missing" \/ (v.k = "str" /\ Strip(v.s) = <<>>)

\* C4: POST /api/reviews answers 400 and stores nothing whenever a field is
\* missing or empty, book_id or rating is not an integer, or the rating is
\* outside 1..5, whether the book exists or not.
C4_InvalidReviewRejected ==
    [][LET data == last'.data
       IN  (/\ last'.op = "add_review"
            /\ \/ \E v \in {data.book_id, data.reviewer, data.rating, data.text} :
                     IsEmpty(v)
               \/ ~IsInteger(data.book_id)
               \/ ~IsInteger(data.rating)
               \/ IntegerOf(data.rating) \notin 1..5)
           => /\ last'.status = 400
              /\ reviews' = reviews
      ]_vars

\* C5: POST /api/reviews with fields the handler accepts and a book_id that is
\* the id of no book answers 404, "book_id does not exist", and leaves the
\* collection as it was.
C5_UnknownBookNotFound ==
    [][LET checked == ValidateReview(last'.data)
       IN  (/\ last'.op = "add_review"
            /\ checked.status = 0
            /\ checked.book_id \notin BookIds(books))
           => /\ last'.status = 404
              /\ last'.error = "book_id does not exist"
              /\ reviews' = reviews
              /\ nextOid' = nextOid
      ]_vars

\* A review for a book_id of no book was refused while the catalog holds a book.
C5_Witness ==
    /\ last.op = "add_review"
    /\ last.status = 404
    /\ books # {}
    /\ ValidateReview(last.data).book_id \notin BookIds(books)

\* A GET /api/reviews that follows a POST /api/reviews answered 201, for the
\* book of the review.
GetFollowsAdd ==
    /\ last.op = "add_review"
    /\ last.status = 201
    /\ last'.op = "get_reviews"
    /\ last'.status = 200
    /\ last'.book_id.k = "str"
    /\ Writes(last'.book_id.s, last.review.book_id)

SameText(v, s) == v.k = "str" /\ v.s = s

\* C6 as stated: the GET that follows returns an item with the identifier add
\* returned whose reviewer, rating and text are the values submitted, and whose
\* created_at is not earlier than the request.
C6_RoundTripSameValues ==
    [][GetFollowsAdd =>
          \E i \in 1..Len(last'.items) :
              LET item == last'.items[i]
              IN  /\ item.id = last.review.id
                  /\ SameText(last.data.reviewer, item.reviewer)
                  /\ SameText(last.data.text, item.text)
                  /\ IsInteger(last.data.rating)
                  /\ IntegerOf(last.data.rating) = item.rating
                  /\ item.created_at >= last.at
      ]_vars

\* C6 as amended: the GET that follows returns an item with the identifier add
\* returned whose reviewer and text are the submitted values written as strings
\* and trimmed, whose rating is int() of the submitted rating, and whose
\* created_at is not earlier than the millisecond in which the request arrived.
C6_RoundTripNormalised ==
    [][GetFollowsAdd =>
          \E i \in 1..Len(last'.items) :
              LET item == last'.items[i]
              IN  /\ item.id = last.review.id
                  /\ item.reviewer = Strip(PyStr(last.data.reviewer))
                  /\ item.text = Strip(PyStr(last.data.text))
                  /\ item.rating = PyInt(last.data.rating).n
                  /\ item.rating \in 1..5
                  /\ item.created_at >= (last.at \div 1000) * 1000
      ]_vars

\* The latest review, sent with spaces around the reviewer, is listed.
C6_Witness ==
    /\ last.op = "get_reviews"
    /\ \E i \in 1..Len(last.items) :
          /\ last.items[i].id = OidStr(nextOid - 1)
          /\ last.items[i].reviewer = <<65, 108>>
          /\ last.items[i].created_at < clock


\* C7: DELETE /api/reviews/{id} of a stored review answers 200 with deleted = 1,
\* removes that document and no other, and the review is in no listing any more;
\* the same DELETE sent again answers 200 with deleted = 0 and changes nothing.
C7_DeleteTwice ==
    [][last'.op = "delete_review" =>
          LET oid == ParseOid(last'.rid)
          IN  /\ \A d \in reviews :
                    (oid.ok /\ d.id = oid.n)
                    => /\ last'.status = 200
                       /\ last'.deleted = 1
                       /\ reviews' = reviews \ {d}
                       /\ \A found \in FindSorted(reviews', d.book_id) :
                             \A i \in 1..Len(found) : found[i].id # d.id
              /\ (/\ last.op = "delete_review"
                  /\ last.deleted = 1
                  /\ last.rid = last'.rid)
                 => /\ last'.status = 200
                    /\ last'.deleted = 0
                    /\ reviews' = reviews
      ]_vars

\* The second DELETE of a review that was stored, beside a review that stays.
C7_Witness ==
    /\ last.op = "delete_review"
    /\ last.status = 200
    /\ last.deleted = 0
    /\ ParseOid(last.rid).n \in 1..(nextOid - 1)
    /\ reviews # {}

\* What GET /api/reviews answers for an accepted book_id: the reviews of that
\* book_id, and their number.
ListsReviewsOf(n) ==
    /\ last.status = 200
    /\ last.count = Cardinality({d \in reviews : d.book_id = n})
    /\ Len(last.items) = last.count
    /\ {last.items[i].id : i \in 1..Len(last.items)}
           = {OidStr(d.id) : d \in {r \in reviews : r.book_id = n}}

\* C8 as stated: GET /api/reviews answers 400 when book_id is missing or is not a
\* positive integer, zero and the negative integers included, and lists the
\* reviews of every positive integer book_id.
C8_PositiveBookIdOnly ==
    last.op = "get_reviews" =>
        IF last.book_id.k = "str" /\ \E n \in 1..9 : Writes(last.book_id.s, n)
        THEN ListsReviewsOf(IntegerOf(last.book_id))
        ELSE last.status = 400

\* C8 as amended: GET /api/reviews answers 400 when book_id is missing, empty or
\* not the writing of an integer, and lists the reviews of every integer
\* book_id, zero and the negative integers included.
C8_IntegerBookId ==
    last.op = "get_reviews" =>
        IF last.book_id.k = "str" /\ IsIntegerText(last.book_id.s)
        THEN ListsReviewsOf(IntegerOf(last.book_id))
        ELSE last.status = 400 /\ last.count = 0

\* The reviews of a book_id of no book were listed, and there are none, while
\* the collection holds reviews.
C8_Witness ==
    /\ last.op = "get_reviews"
    /\ last.status = 200
    /\ last.count = 0
    /\ IntegerOf(last.book_id) < 1
    /\ IntegerOf(last.book_id) \notin BookIds(books)
    /\ reviews # {}

----------------------------------------------------------------------------
(* Properties of GET /api/books.                                           *)

\* C10: GET /api/books answers 200 whatever the limit: at most n books for a
\* positive integer n, every matching book for "all", and for any other value
\* what it answers with the default limit of 100.
C10_LimitFallsBackToDefault ==
    last.op = "list_books" =>
        LET q == Strip(IF Truthy(last.q) THEN last.q.s ELSE <<>>)
            arg == last.limit
            text == IF arg.k = "str" THEN Lower(Strip(arg.s)) ELSE <<>>
            Matching(limit) == SelectBooks(books, authors, book_author, q, limit)
        IN  /\ last.status = 200
            /\ IF text = <<97, 108, 108>>
               THEN last.items = Matching(NoLimit)
               ELSE IF \E n \in 1..9 : Writes(text, n)
               THEN /\ Len(last.items) <= IntegerOf(arg)
                    /\ last.items = SubSeq(Matching(NoLimit), 1, Len(last.items))
               ELSE last.items = Matching(LimitOf(100))

----------------------------------------------------------------------------
(* The settings in use: create_app with every config dict and environment, *)
(* and the stores the handlers open.                                       *)

Configs ==
    [DATABASE : {UnsetPath, Given(Path(TRUE, "/tmp/books.db"))},
     MONGODB_URI : {Unset, Given("mongodb://test:27017")},
     MONGO_DB_NAME : {Unset, Given("books_app_test")},
     REVIEWS_COLL : {Unset, Given("reviews_test")}]

Environs ==
    [BOOKS_DB_PATH : {UnsetPath, Given(Path(FALSE, "env/books.db"))},
     MONGO_URL : {Unset, Given("mongodb://url:27017")},
     MONGODB_URI : {Unset, Given("mongodb://env:27017")},
     MONGO_DB_NAME : {Unset, Given("books_app_env")},
     REVIEWS_COLL : {Unset, Given("reviews_env")}]

InitConfig ==
    /\ InitStores
    /\ app \in {CreateApp(config, environ) : config \in Configs, environ \in Environs}
    /\ logging = "on"

\* Lines 127-131: the SQLite file a request connects to.
GetDb ==
    /\ last' = [op |-> "get_db", status |-> 0, path |-> app.DB_PATH]
    /\ UNCHANGED <<catalogVars, reviewVars, workerVars, appVars, logged>>

\* Lines 143-148: the client, database and collection a request uses.
GetReviewsColl ==
    /\ last' = [op |-> "get_reviews_coll", status |-> 0, uri |-> app.MONGODB_URI,
                db |-> app.MONGO_DB_NAME, coll |-> app.REVIEWS_COLL]
    /\ UNCHANGED <<catalogVars, reviewVars, workerVars, appVars, logged>>

NextConfig == GetDb \/ GetReviewsColl

SpecConfig == InitConfig /\ [][NextConfig]_vars

\* C11: every store access uses, for each of the four settings, the value of
\* the config dict when the key is present in it, and otherwise the value of the
\* environment or the default.
C11_ConfigOverrides ==
    LET config == app.config
        environ == app.environ
        Normal(path) == IF path.isabs THEN path ELSE JoinRoot(path)
        Setting(key, fallback) ==
            IF config[key].isnull THEN fallback ELSE {config[key].v}
        FromEnviron(keys, default) ==
            IF \A k \in keys : environ[k].isnull THEN {default}
            ELSE {environ[k].v : k \in {j \in keys : ~environ[j].isnull}}
    IN  /\ last.op = "get_db" =>
              last.path \in {Normal(p) : p \in
                  Setting("DATABASE", FromEnviron({"BOOKS_DB_PATH"},
                                                  Path(FALSE, "db/books.db")))}
        /\ last.op = "get_reviews_coll" =>
              /\ last.uri \in Setting("MONGODB_URI",
                      FromEnviron({"MONGO_URL", "MONGODB_URI"},
                                  "mongodb://127.0.0.1:27017/"))
              /\ last.db \in Setting("MONGO_DB_NAME",
                      FromEnviron({"MONGO_DB_NAME"}, "books_app"))
              /\ last.coll \in Setting("REVIEWS_COLL",
                      FromEnviron({"REVIEWS_COLL"}, "reviews"))

----------------------------------------------------------------------------
(* The whole API: the five handlers on one catalog and one collection,     *)
(* with an audit channel that may be up, down or disabled.                 *)

ApiBookRequests ==
    [title : {JStr(<<67, 108>>), JStr(<<84, 104>>)},
     author : {JStr(<<82, 111>>)},
     publication_year : {JNull, JStr(<<49, 57, 57, 57>>)},
     image_url : {JMissing}]

ApiReviewRequests ==
    [book_id : {JInt(1), JInt(2)},
     reviewer : {JStr(<<65, 108>>)},
     rating : {JInt(0), JFloat(45)},
     text : {JStr(<<111, 107>>)}]

ApiReviewIds == {OidStr(1), OidStr(2), <<49>>}

\* DISABLE_DB_LOGGING is read from the environment at each call; the MySQL
\* server is up or down.
InitApi ==
    /\ InitStores
    /\ app = CreateApp(NoConfig, NoEnviron)
    /\ logging \in {"on", "down", "disabled"}

\* Lines 15-27: the MySQL server stops answering, or answers again.
LogsDbFails ==
    /\ logging = "on"
    /\ logging' = "down"
    /\ UNCHANGED <<catalogVars, reviewVars, workerVars, last, app, logged>>

LogsDbRecovers ==
    /\ logging = "down"
    /\ logging' = "on"
    /\ UNCHANGED <<catalogVars, reviewVars, workerVars, last, app, logged>>

NextApi ==
    \/ \E data \in ApiBookRequests : AddBook(data)
    \/ ListBooks(JMissing, JMissing)
    \/ \E data \in ApiReviewRequests : AddReview(data)
    \/ \E arg \in {JStr(<<49>>), JStr(<<120>>)} : GetReviews(arg)
    \/ \E rid \in ApiReviewIds : DeleteReview(rid)
    \/ LogsDbFails
    \/ LogsDbRecovers

SpecApi == InitApi /\ [][NextApi]_vars

----------------------------------------------------------------------------
(* Properties of the audit log.                                            *)

ApiOps == {"list_books", "add_book", "get_reviews", "add_review", "delete_review"}

\* A step in which a handler answers a request.
ApiCallStep == last'.op \in ApiOps /\ logging' = logging

\* C12: every call of the API made while the audit channel works writes one
\* audit row, with the name of the handler and the outcome of the call; and a
\* call made while the channel is down or disabled is answered as usual, without
\* a server error.
C12_EveryCallAudited ==
    [][ApiCallStep =>
          /\ logging = "on" =>
                logged' = [function_name |-> last'.op,
                           status |-> StatusLabel(last'.status)]
          /\ logging # "on" => last'.status \in {200, 201, 400, 404}
      ]_vars

----------------------------------------------------------------------------
(* Properties of the authors GET /api/books displays.                      *)

\* The names of the authors linked to a book, in the order the links were made.
NamesInLinkOrder(bid) ==
    LET links == SelectSeq(book_author, LAMBDA l : l.book_id = bid)
    IN  [i \in 1..Len(links) |-> AuthorName(authors, links[i].author_id)]

\* q is a substring of s, without regard to case.
IsSubstring(q, s) ==
    \E i \in 1..(Len(s) + 1) :
        /\ i + Len(q) - 1 <= Len(s)
        /\ SubSeq(NoCase(s), i, i + Len(q) - 1) = NoCase(q)

\* C13: every book GET /api/books returns carries the names of all the authors
\* linked to it, joined in the order the links were made, whatever q is; and,
\* when the limit does not cut the list short, the books returned are those of
\* which q is a substring of the title or of a linked author's name, without
\* regard to case (all of them when q is empty).
C13_AllAuthorsInLinkOrder ==
    last.op = "list_books" =>
        LET q == Strip(IF Truthy(last.q) THEN last.q.s ELSE <<>>)
            limit == ParseLimit(last.limit)
            Matches(b) ==
                \/ q = <<>>
                \/ IsSubstring(q, b.title)
                \/ \E i \in 1..Len(NamesInLinkOrder(b.book_id)) :
                       IsSubstring(q, NamesInLinkOrder(b.book_id)[i])
        IN  /\ \A i \in 1..Len(last.items) :
                  last.items[i].authors
                      = GroupConcat(NamesInLinkOrder(last.items[i].book_id))
            /\ (limit.unbounded \/ limit.n >= Cardinality(books))
                   => {last.items[i].book_id : i \in 1..Len(last.items)}
                          = {b.book_id : b \in {r \in books : Matches(r)}}

----------------------------------------------------------------------------
(* POST /api/books on a book of the catalog: what the update changes.      *)

UpsertRequests ==
    [title : {JStr(<<67, 108>>), JStr(<<99, 108, 32>>)},
     author : {JStr(<<82, 111>>), JStr(<<32, 65, 110>>)},
     publication_year : {JStr(<<49, 57, 57, 57>>)},
     image_url : {JMissing, JNull, JStr(<<32>>), JStr(<<32, 100>>)}]

NextUpsert == \E data \in UpsertRequests : AddBook(data)

SpecUpsert == Init /\ [][NextUpsert]_vars

\* An image_url that is omitted, null or blank.
NoImage(v) == v.k \in {"missing", "null"} \/ (v.k = "str" /\ Strip(v.s) = <<>>)

\* C14: a valid POST /api/books whose title matches a book of the catalog keeps
\* the row's book_id and title as stored, leaves every other book row, every
\* author row and every link as it was, adds at most one link, for that book,
\* sets publication_year to the new year, and sets image_url to the new value
\* unless it is omitted, null or blank, in which case the stored one is kept.
C14_UpdateFrame ==
    [][ValidAddBookStep => \A b \in books :
          LET req == ParseAddBook(last'.data)
              image == last'.data.image_url
          IN  SameTitle(b.title, req.title)
              => /\ \E c \in books' :
                       /\ c.book_id = b.book_id
                       /\ c.title = b.title
                       /\ c.publication_year = req.year
                       /\ c.image_url = IF NoImage(image) THEN b.image_url
                                        ELSE Some(Strip(image.s))
                       /\ books' \ {c} = books \ {b}
                 /\ authors \subseteq authors'
                 /\ Len(book_author') <= Len(book_author) + 1
                 /\ SubSeq(book_author', 1, Len(book_author)) = book_author
                 /\ \A i \in (Len(book_author) + 1)..Len(book_author') :
                       book_author'[i].book_id = b.book_id
      ]_vars

\* A book whose stored image survived an upsert that sent a blank image_url
\* under another casing of the title, after an upsert had replaced the image.
C14_Witness ==
    /\ last.op = "add_book"
    /\ last.status = 200
    /\ last.data.image_url = JStr(<<32>>)
    /\ last.book.title # ParseAddBook(last.data).title
    /\ last.book.image_url = <<100>>
    /\ Cardinality(books) >= 2

----------------------------------------------------------------------------
(* The reviews and the catalog together.                                   *)

\* C15: every stored review has the book_id of a book of the catalog and a
\* rating from 1 to 5.
C15_ReviewsReferToBooks ==
    \A d \in reviews : d.book_id \in BookIds(books) /\ d.rating \in 1..5

\* Reviews of two books are stored, one of them sent with the rating 4.5, and
\* the latest review was refused.
C15_Witness ==
    /\ last.op = "add_review"
    /\ last.status \in {400, 404}
    /\ {d.book_id : d \in reviews} = {1, 2}
    /\ \E d \in reviews : d.rating = 4

====
